---- MODULE Spec2Model ----
(***************************************************************************)
(* CI notifier scripts of the repository:                                  *)
(*   contract  - src/unnamed/part_001 (protobuf contract review trigger)   *)
(*   generated - src/unnamed/part_002 (generated protobuf diff trigger)    *)
(*   linkbot   - src/.github/scripts/bot-pr-missing-linked-issue.js        *)
(* The durable state is the comment thread of one pull request: `old`      *)
(* comments written by people before the first run, each of them Filler,   *)
(* followed by the comments `new` the notifiers added.  Each invocation is *)
(* a process whose steps are the stretches of code between two awaited     *)
(* network calls.  Texts are sequences of tokens, so that                  *)
(* String.prototype.includes is a contiguous-subsequence search.  The text  *)
(* functions parseUniqueLines and truncateDiff are applied to texts that   *)
(* are sequences of characters, under a specification of their own, with   *)
(* the call and its result in `calc`.                                      *)
(***************************************************************************)
EXTENDS Integers, Sequences, FiniteSets, TLC

VARIABLES thread, inv, world, calc

vars == <<thread, inv, world, calc>>

\* ------------------------------------------------------------------ bounds
MaxNew == 3

MaxConcurrent == 2

Slots == 1..MaxConcurrent

\* ------------------------------------------------------- program constants
MARKER_PREFIX == "<!-- CodeRabbit Protobuf Review Trigger:"

MAX_COMMENTS_TO_SCAN == 500

PER_PAGE == 100

LIST_DEFAULT_PER_PAGE == 30

LINKBOT_MISSING_ISSUE_MARKER == <<"<!-- LinkBot Missing Issue -->">>

\* ------------------------------------------------------------ input sets
PR == 7

\* the PR's head revision, and the one before it
HeadSha == "h1"

OlderSha == "h0"

DryEnvs == {"", "true", "TRUE"}

Alice == [type |-> "User", login |-> <<"alice">>]

CiApp == [type |-> "Bot", login |-> <<"ci-runner">>]

Renovate == [type |-> "User", login |-> <<"renovate", "[bot]">>]

Authors == {Alice, CiApp, Renovate}

\* the authors that are bot accounts: by account type, by login suffix
BotAuthors == {CiApp, Renovate}

NoAuthor == [type |-> "", login |-> <<>>]

Filler == <<"LGTM">>

ThreadLen(t) == t.old + Len(t.new)

\* the k-th comment of the thread, oldest first
Comment(t, k) == IF k <= t.old THEN Filler ELSE t.new[k - t.old]

AppendComment(t, body) == [t EXCEPT !.new = Append(@, body)]

HistoryLens == {0, MAX_COMMENTS_TO_SCAN - 1, MAX_COMMENTS_TO_SCAN}

CreateStatuses == {201, 403, 404, 500}

\* ------------------------------------------------------------ text helpers
Min(a, b) == IF a <= b THEN a ELSE b

\* String.prototype.includes on token sequences
Includes(body, m) ==
  \E k \in 0..(Len(body) - Len(m)) : SubSeq(body, k + 1, k + Len(m)) = m

\* String.prototype.endsWith('[bot]')
EndsWithBot(login) == Len(login) >= 1 /\ login[Len(login)] = "[bot]"

\* String.prototype.toLowerCase on the values DRY_RUN takes
ToLowerCase(s) == IF s = "TRUE" THEN "true" ELSE s

\* Number(process.env.PR_NUMBER): NaN and 0 are both falsy, written 0
NumberOf(s) == IF s = "7" THEN PR ELSE 0

\* the flag compared as it is written, with no toLowerCase
ProtoIsDryRunCaseSensitive(env) == (IF env = "" THEN "false" ELSE env) = "true"

\* part_001:200 / part_002:158  (process.env.DRY_RUN || "false").toLowerCase() === "true"
ProtoIsDryRun(env) == ToLowerCase(IF env = "" THEN "false" ELSE env) = "true"

\* bot-pr-missing-linked-issue.js:32  process.env.DRY_RUN === 'true'
LinkbotIsDryRun(env) == env = "true"

IsDryRun(kind, env) ==
  IF kind = "linkbot" THEN LinkbotIsDryRun(env) ELSE ProtoIsDryRun(env)

\* part_001:214 / part_002:178  `${MARKER_PREFIX} ${headSha} -->`
Marker(headSha) == <<MARKER_PREFIX, " ", headSha, " -->">>

MarkerOf(kind, headSha) ==
  IF kind = "linkbot" THEN LINKBOT_MISSING_ISSUE_MARKER ELSE Marker(headSha)

\* part_001:155-171  the body starts with the marker line and the mention
ContractBody(marker, headSha) ==
  marker \o <<"\n", "@coderabbitai full review", "\n",
              "Protobuf contract validation", "\n",
              "- Head commit: ", headSha>>

\* part_002:111-131
GeneratedBody(marker, headSha) ==
  marker \o <<"\n", "@coderabbitai full review", "\n",
              "Generated protobuf build diff detected for this pull request.", "\n",
              "- Head commit: ", headSha>>

\* bot-pr-missing-linked-issue.js:85-106
LinkbotBody(login) ==
  LINKBOT_MISSING_ISSUE_MARKER \o <<"Hi @">> \o login \o <<", this is LinkBot">>

BodyOf(kind, headSha, login) ==
  CASE kind = "contract" -> ContractBody(Marker(headSha), headSha)
    [] kind = "generated" -> GeneratedBody(Marker(headSha), headSha)
    [] OTHER -> LinkbotBody(login)

\* ------------------------------------------------------------ files, trim
Whitespace == {" ", "\n", "\t", "\r"}

RECURSIVE TrimStart(_)
TrimStart(s) ==
  IF s = <<>> \/ s[1] \notin Whitespace THEN s ELSE TrimStart(Tail(s))

RECURSIVE TrimEnd(_)
TrimEnd(s) ==
  IF s = <<>> \/ s[Len(s)] \notin Whitespace THEN s
  ELSE TrimEnd(SubSeq(s, 1, Len(s) - 1))

\* the text as it is, nothing trimmed
NoTrim(s) == s

\* String.prototype.trim
Trim(s) == TrimEnd(TrimStart(s))

NoFile == [exists |-> FALSE, text |-> <<>>]

DiffFiles ==
  {NoFile,
   [exists |-> TRUE, text |-> <<>>],
   [exists |-> TRUE, text |-> <<" ", "\n">>],
   [exists |-> TRUE, text |-> <<"+message Foo {}", "\n">>]}

\* what is at the diff path: no file, an empty file, white space only, text
DiffKindOf(file) ==
  IF ~file.exists THEN "missing"
  ELSE IF file.text = <<>> THEN "empty"
  ELSE IF \A k \in 1..Len(file.text) : file.text[k] \in Whitespace THEN "blank"
  ELSE "text"

\* part_001:10-16 / part_002:10-16
readTextFileOrEmpty(filePath, file) ==
  IF filePath = "" \/ ~file.exists THEN <<>> ELSE file.text

\* ------------------------------------------------------ deduplication guard
\* every guard fail-open
FailOpen(kind) == FALSE

\* part_001:70,83 (fail-closed) / part_002:69,81 (fail-open)
CapResult(kind) == kind = "contract"

ErrResult(kind) == kind = "contract"

\* the page the listing call returns: comments (p-1)*per+1 .. p*per of the thread
PageOf(t, p, per) ==
  [k \in 1..(Min(p * per, ThreadLen(t)) - (p - 1) * per) |->
     Comment(t, (p - 1) * per + k)]

\* the cap tested before the marker
ScanPageCapFirst(page, marker, scanned, capResult) ==
  LET stops == {k \in 1..Len(page) :
                  \/ Includes(page[k], marker)
                  \/ scanned + k >= MAX_COMMENTS_TO_SCAN}
  IN IF stops = {}
     THEN [ret |-> FALSE, val |-> FALSE, scanned |-> scanned + Len(page),
           hit |-> <<>>]
     ELSE LET k == CHOOSE x \in stops : \A y \in stops : x <= y
              capped == scanned + k >= MAX_COMMENTS_TO_SCAN
          IN [ret |-> TRUE,
              val |-> IF capped THEN capResult ELSE TRUE,
              scanned |-> scanned + k,
              hit |-> IF capped THEN <<>> ELSE page[k]]

\* part_001:63-72 / part_002:63-71  the inner loop over one page, which counts
\* every comment and returns at the first comment k that holds the marker
\* (true) or brings the count to the cap (capResult), the marker tested first.
\* ret: the function returned; val: what it returned; scanned: the counter.
ScanPage(page, marker, scanned, capResult) ==
  LET stops == {k \in 1..Len(page) :
                  \/ Includes(page[k], marker)
                  \/ scanned + k >= MAX_COMMENTS_TO_SCAN}
  IN IF stops = {}
     THEN [ret |-> FALSE, val |-> FALSE, scanned |-> scanned + Len(page),
           hit |-> <<>>]
     ELSE LET k == CHOOSE x \in stops : \A y \in stops : x <= y
          IN [ret |-> TRUE,
              val |-> IF Includes(page[k], marker) THEN TRUE ELSE capResult,
              scanned |-> scanned + k,
              hit |-> IF Includes(page[k], marker) THEN page[k] ELSE <<>>]

\* no comment is taken for the reminder
AlreadyCommentedNever(page) == FALSE

\* bot-pr-missing-linked-issue.js:69-71  comments.data.some(...)
AlreadyCommented(page) ==
  \E k \in 1..Len(page) : Includes(page[k], LINKBOT_MISSING_ISSUE_MARKER)

\* the account-type flag alone, the login's suffix not looked at
IsBotByTypeOnly(author) == author.type = "Bot"

\* bot-pr-missing-linked-issue.js:58
IsBot(author) == author.type = "Bot" \/ EndsWithBot(author.login)

NoNodes == <<"?">>

NodeLists == {<<"CLOSED">>, <<"CLOSED", "OPEN">>}

IsOpen(state) == state = "OPEN"

\* a failed query taken for a PR with no linked issue
getLinkedOpenIssuesEmptyOnError(ok, nodes) ==
  [isNull |-> FALSE, issues |-> IF ok THEN SelectSeq(nodes, IsOpen) ELSE <<>>]

\* bot-pr-missing-linked-issue.js:19-26
getLinkedOpenIssues(ok, nodes) ==
  IF ok THEN [isNull |-> FALSE, issues |-> SelectSeq(nodes, IsOpen)]
  ELSE [isNull |-> TRUE, issues |-> <<>>]

\* ------------------------------------------------------------- invocations
\* An invocation: the locals its code still reads (pc, head, dryEnv, page,
\* scanned, already) and the record of what it did (the other fields).
\*   priorSame   a comment of this notifier for this head was on the thread
\*               when the run started
\*   present     a comment of this notifier for this head was on the thread
\*               when the guard's scan ended
\*   hitForeign  the guard found the marker in a comment that is not a comment
\*               of this notifier for this head
\*   diffKind    what the generated-diff run found at PROTOBUF_DIFF_PATH
\*   capHit      the guard counted MAX_COMMENTS_TO_SCAN comments, none of them
\*               holding the marker
\*   examined    the comments the guard had counted when it returned
\*   firstAt     the place of the first comment holding the marker among the
\*               first MAX_COMMENTS_TO_SCAN comments of the thread when the
\*               guard returned, 0 if there is none; for linkbot, among the
\*               comments its listing call returned
Idle ==
  [kind |-> "none", pc |-> "idle", outcome |-> "none", exit |-> "",
   head |-> "", dryEnv |-> "",
   page |-> 0, scanned |-> 0, already |-> FALSE, guard |-> "none",
   nGet |-> 0, listed |-> FALSE, nQuery |-> 0, nCreate |-> 0,
   created |-> 0, status |-> 0,
   listFailed |-> FALSE, queryFailed |-> FALSE, reqAbsent |-> FALSE,
   priorSame |-> FALSE, present |-> FALSE, hitForeign |-> FALSE,
   diffKind |-> "none", capHit |-> FALSE, examined |-> 0, firstAt |-> 0]

InFlight(j) == inv[j].pc \notin {"idle", "done"}

\* some comment of the thread is `body` / holds `marker`
OnThread(body) ==
  \/ thread.old > 0 /\ Filler = body
  \/ \E k \in 1..Len(thread.new) : thread.new[k] = body

MarkerOnThread(marker) ==
  \/ thread.old > 0 /\ Includes(Filler, marker)
  \/ \E k \in 1..Len(thread.new) : Includes(thread.new[k], marker)

\* The place of the first comment holding `marker` among the first
\* MAX_COMMENTS_TO_SCAN comments, 0 if none.  The old comments are Filler,
\* which holds no marker.
FirstMarkerAt(t, marker) ==
  LET at == {k \in (t.old + 1)..Min(ThreadLen(t), MAX_COMMENTS_TO_SCAN) :
               Includes(Comment(t, k), marker)}
  IN IF at = {} THEN 0 ELSE CHOOSE k \in at : \A j \in at : k <= j

\* The place of the first comment holding linkbot's marker among the comments
\* the un-paginated listing call returns, 0 if none.
FirstOnFirstPage(t) ==
  LET at == {k \in (t.old + 1)..Min(ThreadLen(t), LIST_DEFAULT_PER_PAGE) :
               Includes(Comment(t, k), LINKBOT_MISSING_ISSUE_MARKER)}
  IN IF at = {} THEN 0 ELSE CHOOSE k \in at : \A j \in at : k <= j

\* the process exits: its locals are gone, what it did remains.  The dry-run
\* flag stays on record when the run came to the dry-run test.
Finish(r, outcome, exit) ==
  [r EXCEPT !.pc = "done", !.outcome = outcome, !.exit = exit,
            !.page = 0, !.scanned = 0, !.already = FALSE,
            !.dryEnv = IF exit \in {"dryrun", "posted", "forbidden", "create_error"}
                       THEN @ ELSE ""]

\* a new process: nothing of an earlier run is left but the thread
Begin(kind) == [Idle EXCEPT !.kind = kind, !.outcome = "running"]

\* A finished process is gone before anything else happens (Exit): nothing
\* reads what a finished run has left in its slot.
NoneDone == \A j \in Slots : inv[j].pc # "done"

\* a run starts only while the thread has room for the comment it may add
CanStart(i) ==
  /\ NoneDone
  /\ Len(thread.new) + Cardinality({j \in Slots : InFlight(j)}) < MaxNew
  /\ inv[i].pc = "idle"
  /\ \A j \in Slots : j < i => inv[j].pc # "idle"

At(i, pc) == NoneDone /\ inv[i].pc = pc

Counted(i) ==
  [world EXCEPT !.overlap = @ \/ \E j \in Slots \ {i} : InFlight(j)]

\* main returns whatever the guard's answer is
AfterGuardDrop(r, val) ==
  Finish([r EXCEPT !.guard = IF val THEN "posted" ELSE "absent",
                   !.present = OnThread(BodyOf(r.kind, r.head, <<>>)),
                   !.firstAt = FirstMarkerAt(thread, Marker(r.head))],
         "ok", "already")

\* part_001:216-237 / part_002:180-199  what main does with the guard's answer
AfterGuard(r, val) ==
  LET g == [r EXCEPT !.guard = IF val THEN "posted" ELSE "absent",
                     !.present = OnThread(BodyOf(r.kind, r.head, <<>>)),
                     !.firstAt = FirstMarkerAt(thread, Marker(r.head))]
  IN IF val THEN Finish(g, "ok", "already")
     ELSE IF IsDryRun(r.kind, r.dryEnv) THEN Finish(g, "ok", "dryrun")
     ELSE [g EXCEPT !.pc = "post"]

\* a required value of the context is absent: base, head, file-list source
RequiredAbsent(base, head, files) == base = "" \/ head = "" \/ files = ""

\* the two revisions tested, the file-list source not
MissingRequiredShasOnly(kind, base, head, diffPath, files) ==
  base = "" \/ head = ""

\* part_001:202 / part_002:160
MissingRequired(kind, base, head, diffPath, files) ==
  \/ base = "" \/ head = "" \/ files = ""
  \/ kind = "generated" /\ diffPath = ""

\* part_001:183-214
ContractMain(r, pr, base, head, files, dry) ==
  IF pr = 0 THEN Finish(r, "ok", "nopr")
  ELSE IF MissingRequired("contract", base, head, "", files)
  THEN Finish(r, "ok", "missing")
  ELSE [r EXCEPT !.pc = "scan", !.head = head, !.dryEnv = dry,
                 !.priorSame = OnThread(BodyOf("contract", head, <<>>))]

\* part_002:143-178
GeneratedMain(r, pr, base, head, diffPath, files, dry, file) ==
  IF pr = 0 THEN Finish(r, "ok", "nopr")
  ELSE IF MissingRequired("generated", base, head, diffPath, files)
  THEN Finish(r, "ok", "missing")
  ELSE IF Trim(readTextFileOrEmpty(diffPath, file)) = <<>>
  THEN Finish(r, "ok", "nodiff")
  ELSE [r EXCEPT !.pc = "scan", !.head = head, !.dryEnv = dry,
                 !.priorSame = OnThread(BodyOf("generated", head, <<>>))]

\* process.env.HEAD_SHA is the PR's head revision, or is not set
HeadEnvs == {HeadSha, ""}

StartContract(i) ==
  /\ CanStart(i)
  /\ \E pr \in {0, PR}, base \in {"", "b0"}, head \in HeadEnvs,
        files \in {"", "files.txt"}, dry \in DryEnvs :
       inv' = [inv EXCEPT ![i] =
                 ContractMain([Begin("contract") EXCEPT
                                 !.reqAbsent = RequiredAbsent(base, head, files)],
                              pr, base, head, files, dry)]
  /\ world' = Counted(i)
  /\ UNCHANGED <<thread, calc>>

StartGenerated(i) ==
  /\ CanStart(i)
  /\ \E pr \in {0, PR}, base \in {"", "b0"}, head \in HeadEnvs,
        diffPath \in {"", "diff.txt"}, files \in {"", "files.txt"},
        dry \in DryEnvs, file \in DiffFiles :
       inv' = [inv EXCEPT ![i] =
                 GeneratedMain([Begin("generated") EXCEPT
                                  !.diffKind = DiffKindOf(file),
                                  !.reqAbsent = RequiredAbsent(base, head, files)],
                               pr, base, head, diffPath, files, dry, file)]
  /\ world' = Counted(i)
  /\ UNCHANGED <<thread, calc>>

\* part_001:52-87 / part_002:52-85  one round of `for await` over the iterator:
\* the page is fetched (or the call throws), then scanned
ScanStep(r, ok) ==
  LET p == r.page + 1
      n == [r EXCEPT !.listed = TRUE]
  IN IF ~ok
     THEN AfterGuard([n EXCEPT !.listFailed = TRUE], ErrResult(r.kind))
     ELSE LET sc == ScanPage(PageOf(thread, p, PER_PAGE), Marker(r.head),
                             r.scanned, CapResult(r.kind))
          IN IF sc.ret
             THEN AfterGuard([n EXCEPT !.hitForeign =
                                 sc.hit # <<>> /\ sc.hit # BodyOf(r.kind, r.head, <<>>),
                                       !.capHit = (sc.hit = <<>>),
                                       !.examined = sc.scanned],
                             sc.val)
             ELSE IF ThreadLen(thread) > p * PER_PAGE
             THEN [n EXCEPT !.page = p, !.scanned = sc.scanned]
             ELSE AfterGuard([n EXCEPT !.examined = sc.scanned], FALSE)

ListPage(i) ==
  /\ At(i, "scan")
  /\ \E ok \in BOOLEAN : inv' = [inv EXCEPT ![i] = ScanStep(inv[i], ok)]
  /\ UNCHANGED <<thread, world, calc>>

\* a failed creation call is made again
PostResultRetry(r, st) ==
  LET c == [r EXCEPT !.nCreate = @ + 1, !.status = st]
  IN IF st = 201 THEN Finish([c EXCEPT !.created = 1], "ok", "posted") ELSE c

\* part_001:239-253 / part_002:201-215
PostResult(r, st) ==
  LET c == [r EXCEPT !.nCreate = @ + 1, !.status = st]
  IN IF st = 201 THEN Finish([c EXCEPT !.created = 1], "ok", "posted")
     ELSE IF st = 403 \/ st = 404 THEN Finish(c, "ok", "forbidden")
     ELSE Finish(c, "fault", "create_error")

\* part_001:174-181 / part_002:134-141
CreateTriggerComment(i) ==
  /\ At(i, "post")
  /\ inv[i].kind \in {"contract", "generated"}
  /\ \E st \in CreateStatuses :
       /\ inv' = [inv EXCEPT ![i] = PostResult(inv[i], st)]
       /\ thread' = IF st = 201
                    THEN AppendComment(thread, BodyOf(inv[i].kind, inv[i].head, <<>>))
                    ELSE thread
  /\ UNCHANGED <<world, calc>>

\* bot-pr-missing-linked-issue.js:55-61  then on to the comment listing.
\* prData, from the payload or from pulls.get, carries the PR's author.
AfterPrData(r, author) ==
  IF IsBot(author) THEN Finish(r, "ok", "bot") ELSE [r EXCEPT !.pc = "list"]

\* bot-pr-missing-linked-issue.js:30-53, and 125-129 for the throw of line 36
LinkbotEntry(r, dry, prEnv, hasPayload, author) ==
  LET prNumber == IF NumberOf(prEnv) # 0 THEN NumberOf(prEnv)
                  ELSE IF hasPayload THEN PR ELSE 0
      e == [r EXCEPT !.dryEnv = dry,
                     !.priorSame = OnThread(BodyOf("linkbot", "", author.login))]
  IN IF prNumber = 0 THEN Finish(r, "fault", "nopr")
     ELSE IF hasPayload THEN AfterPrData(e, author) ELSE [e EXCEPT !.pc = "get"]

\* the PR has one author and one list of linked issues, fixed when the first
\* linkbot run looks at the PR
AuthorChoices == IF world.author = NoAuthor THEN Authors ELSE {world.author}

NodeChoices == IF world.nodes = NoNodes THEN NodeLists ELSE {world.nodes}

HasOpenIssue == \E k \in 1..Len(world.nodes) : IsOpen(world.nodes[k])

StartLinkbot(i) ==
  /\ CanStart(i)
  /\ \E dry \in DryEnvs, prEnv \in {"", "7"}, hasPayload \in BOOLEAN,
        author \in AuthorChoices, nodes \in NodeChoices :
       /\ inv' = [inv EXCEPT ![i] =
                    LinkbotEntry(Begin("linkbot"), dry, prEnv, hasPayload, author)]
       /\ world' = IF prEnv = "" /\ ~hasPayload THEN Counted(i)
                   ELSE [Counted(i) EXCEPT !.author = author, !.nodes = nodes]
  /\ UNCHANGED <<thread, calc>>

\* bot-pr-missing-linked-issue.js:47-52, 125-129
PullsGetResult(r, ok) ==
  LET n == [r EXCEPT !.nGet = @ + 1]
  IN IF ok THEN AfterPrData(n, world.author) ELSE Finish(n, "fault", "get_error")

PullsGet(i) ==
  /\ At(i, "get")
  /\ \E ok \in BOOLEAN : inv' = [inv EXCEPT ![i] = PullsGetResult(inv[i], ok)]
  /\ UNCHANGED <<thread, world, calc>>

\* bot-pr-missing-linked-issue.js:63-71, 125-129  one call, no pagination:
\* the first page of the thread
ListCommentsResult(r, ok) ==
  LET n == [r EXCEPT !.listed = TRUE]
  IN IF ok
     THEN [n EXCEPT !.pc = "query",
                    !.already = AlreadyCommented(PageOf(thread, 1, LIST_DEFAULT_PER_PAGE)),
                    !.present = OnThread(BodyOf("linkbot", "", world.author.login)),
                    !.firstAt = FirstOnFirstPage(thread)]
     ELSE Finish([n EXCEPT !.listFailed = TRUE], "fault", "list_error")

ListComments(i) ==
  /\ At(i, "list")
  /\ \E ok \in BOOLEAN :
       inv' = [inv EXCEPT ![i] = ListCommentsResult(inv[i], ok)]
  /\ UNCHANGED <<thread, world, calc>>

\* bot-pr-missing-linked-issue.js:73-112, 122-124
QueryResult(r, ok) ==
  LET linkedIssues == getLinkedOpenIssues(ok, world.nodes)
      n == [r EXCEPT !.nQuery = @ + 1, !.queryFailed = ~ok,
                     !.guard = IF r.already THEN "posted" ELSE "absent"]
  IN IF linkedIssues.isNull THEN Finish(n, "ok", "unknown")
     ELSE IF Len(linkedIssues.issues) = 0
     THEN IF r.already THEN Finish(n, "ok", "already")
          ELSE IF IsDryRun(r.kind, r.dryEnv) THEN Finish(n, "ok", "dryrun")
          ELSE [n EXCEPT !.pc = "post"]
     ELSE Finish(n, "ok", "linked")

Query(i) ==
  /\ At(i, "query")
  /\ \E ok \in BOOLEAN : inv' = [inv EXCEPT ![i] = QueryResult(inv[i], ok)]
  /\ UNCHANGED <<thread, world, calc>>

\* bot-pr-missing-linked-issue.js:114-120, 125-129
LinkbotPostResult(r, st) ==
  LET c == [r EXCEPT !.nCreate = @ + 1, !.status = st]
  IN IF st = 201 THEN Finish([c EXCEPT !.created = 1], "ok", "posted")
     ELSE Finish(c, "fault", "create_error")

LinkbotCreate(i) ==
  /\ At(i, "post")
  /\ inv[i].kind = "linkbot"
  /\ \E st \in CreateStatuses :
       /\ inv' = [inv EXCEPT ![i] = LinkbotPostResult(inv[i], st)]
       /\ thread' = IF st = 201
                    THEN AppendComment(thread, BodyOf("linkbot", "", world.author.login))
                    ELSE thread
  /\ UNCHANGED <<world, calc>>

\* main has returned or thrown: the process is over.  The running processes
\* stay in the order they started in.
Exit(i) ==
  /\ inv[i].pc = "done"
  /\ inv' = [j \in Slots |->
               IF j < i THEN inv[j]
               ELSE IF j < MaxConcurrent THEN inv[j + 1] ELSE Idle]
  /\ UNCHANGED <<thread, world, calc>>

\* ---------------------------------------------------------- text functions
MaxTextLen == 5

MaxBudget == 3

Chars == {"a", "b", " ", "\n", "\r"}

Texts == UNION {[1..n -> Chars] : n \in 0..MaxTextLen}

\* String.prototype.slice(0, end), 0 <= end
SliceTo(s, end) == SubSeq(s, 1, Min(end, Len(s)))

\* String.prototype.lastIndexOf, indices from 0, -1 when absent
LastIndexOf(s, c) ==
  LET at == {k \in 1..Len(s) : s[k] = c}
  IN IF at = {} THEN -1 ELSE (CHOOSE k \in at : \A j \in at : j <= k) - 1

\* part_001:48  what follows safeSlice in the truncated text
TruncationNote == <<"\n", "... (diff truncated in CI comment)">>

\* part_001:34-50 / part_002:34-50
truncateDiff(diffText, maxChars) ==
  IF Len(diffText) <= maxChars
  THEN [truncated |-> FALSE, text |-> diffText]
  ELSE LET slice == SliceTo(diffText, maxChars)
           lineBreakIndex == LastIndexOf(slice, "\n")
           safeSlice == IF lineBreakIndex > 0 THEN SliceTo(slice, lineBreakIndex)
                        ELSE slice
       IN [truncated |-> TRUE, text |-> safeSlice \o TruncationNote]

\* String.prototype.split(/\r?\n/): the text cut at every "\n", a "\r"
\* right before it going with it
RECURSIVE SplitLines(_)
SplitLines(text) ==
  LET at == {k \in 1..Len(text) : text[k] = "\n"}
  IN IF at = {} THEN <<text>>
     ELSE LET k == CHOOSE x \in at : \A y \in at : x <= y
              e == IF k > 1 /\ text[k - 1] = "\r" THEN k - 2 ELSE k - 1
          IN <<SubSeq(text, 1, e)>> \o SplitLines(SubSeq(text, k + 1, Len(text)))

\* part_001:22-29  the loop, over the raw lines still to come
RECURSIVE CollectLines(_, _, _)
CollectLines(rawLines, seen, lines) ==
  IF rawLines = <<>> THEN lines
  ELSE LET line == Trim(Head(rawLines))
       IN IF line = <<>> \/ line \in seen
          THEN CollectLines(Tail(rawLines), seen, lines)
          ELSE CollectLines(Tail(rawLines), seen \cup {line}, Append(lines, line))

\* the loop with no `seen` set
parseUniqueLinesNoSeen(text) ==
  LET raw == SplitLines(text)
      trimmed == [k \in 1..Len(raw) |-> Trim(raw[k])]
      notEmpty(l) == l # <<>>
  IN SelectSeq(trimmed, notEmpty)

\* part_001:18-32 / part_002:18-32
parseUniqueLines(text) == CollectLines(SplitLines(text), {}, <<>>)

NoCalc ==
  [fn |-> "none", text |-> <<>>, maxChars |-> 0, returned |-> FALSE,
   truncated |-> FALSE, out |-> <<>>, lines |-> <<>>]

TruncateDiffCall ==
  /\ calc.fn = "truncateDiff" /\ ~calc.returned
  /\ LET r == truncateDiff(calc.text, calc.maxChars)
     IN calc' = [calc EXCEPT !.returned = TRUE, !.truncated = r.truncated,
                             !.out = r.text]
  /\ UNCHANGED <<thread, inv, world>>

ParseUniqueLinesCall ==
  /\ calc.fn = "parseUniqueLines" /\ ~calc.returned
  /\ calc' = [calc EXCEPT !.returned = TRUE, !.lines = parseUniqueLines(calc.text)]
  /\ UNCHANGED <<thread, inv, world>>

InitFn ==
  /\ thread = [old |-> 0, new |-> <<>>]
  /\ inv = [i \in Slots |-> Idle]
  /\ world = [author |-> NoAuthor, nodes |-> NoNodes, overlap |-> FALSE]
  /\ \/ \E t \in Texts, m \in 0..MaxBudget :
          calc = [NoCalc EXCEPT !.fn = "truncateDiff", !.text = t, !.maxChars = m]
     \/ \E t \in Texts :
          calc = [NoCalc EXCEPT !.fn = "parseUniqueLines", !.text = t]

NextFn == TruncateDiffCall \/ ParseUniqueLinesCall

SpecFn == InitFn /\ [][NextFn]_vars

\* ------------------------------------------------------------ specification
Init ==
  /\ thread \in {[old |-> n, new |-> <<>>] : n \in HistoryLens}
  /\ inv = [i \in Slots |-> Idle]
  /\ world = [author |-> NoAuthor, nodes |-> NoNodes, overlap |-> FALSE]
  /\ calc = NoCalc

Next ==
  \E i \in Slots :
    \/ StartContract(i)
    \/ StartGenerated(i)
    \/ StartLinkbot(i)
    \/ ListPage(i)
    \/ CreateTriggerComment(i)
    \/ PullsGet(i)
    \/ ListComments(i)
    \/ Query(i)
    \/ LinkbotCreate(i)
    \/ Exit(i)

Spec == Init /\ [][Next]_vars

\* Every invocation is a process of its own on a CI runner: a process that
\* has a step to take takes it, and a process that has ended goes away.  A
\* step is held back only for the moment in which another process has ended
\* and is not yet gone, hence strong fairness for the steps.
NextProto ==
  \E i \in Slots :
    \/ StartContract(i)
    \/ StartGenerated(i)
    \/ ListPage(i)
    \/ CreateTriggerComment(i)
    \/ Exit(i)

Fairness ==
  \A i \in Slots :
    /\ SF_vars(ListPage(i))
    /\ SF_vars(CreateTriggerComment(i))
    /\ WF_vars(Exit(i))

SpecProto == Init /\ [][NextProto]_vars /\ Fairness

\* ------------------------------------------------------------------ claims
Kinds == {"contract", "generated", "linkbot"}

Ended(i) == inv[i].pc = "done"

\* C1: idempotence.  A run that starts when a run of the same notifier in the
\* same context has already posted its comment, and whose comment listing
\* succeeds, creates no comment: the two runs together create one comment.
C1_SecondRunCreatesNone ==
  \A i \in Slots :
    (inv[i].priorSame /\ ~inv[i].listFailed) => inv[i].created = 0

\* C2: two concurrent runs of one protobuf notifier in one context.  No run
\* makes more than one creation call, and a run whose listing succeeds creates
\* a comment only if no comment of that notifier and context was on the thread
\* when its guard's scan ended: a duplicate needs both scans to end before
\* either run posts.
C2_DuplicateOnlyByRace ==
  \A i \in Slots :
    inv[i].kind \in {"contract", "generated"} =>
      /\ inv[i].nCreate <= 1
      /\ (inv[i].created = 1 /\ ~inv[i].listFailed) => ~inv[i].present

\* C3: the marker is unique per notifier kind and head revision.  The marker
\* of one head is in no body posted for another head, and the guard of a run
\* reports "already posted" on a marker match only when the matching comment
\* is a comment of that run's own notifier for that run's head.
C3_MarkerPerKindAndHead ==
  /\ \A k \in Kinds :
       ~Includes(BodyOf(k, OlderSha, Alice.login), Marker(HeadSha))
  /\ \A i \in Slots : ~inv[i].hitForeign

\* C4: posting-failure policy.  A run that made the creation call ends in a
\* fault exactly when the call failed with a status other than 403 and 404.
C4_FaultIffOtherError ==
  \A i \in Slots :
    (Ended(i) /\ inv[i].nCreate >= 1) =>
      (inv[i].outcome = "fault" <=> inv[i].status \notin {201, 403, 404})

\* C5: a failure of the comment listing never ends the run in a fault.
C5_ListingFailureIsNoFault ==
  \A i \in Slots : inv[i].listFailed => inv[i].outcome # "fault"

\* C6: a run that can resolve no PR number exits without error and without
\* any external call.
C6_NoPrNumberIsNoOp ==
  \A i \in Slots :
    inv[i].exit = "nopr" =>
      /\ inv[i].outcome = "ok"
      /\ inv[i].nGet = 0 /\ ~inv[i].listed /\ inv[i].nQuery = 0
      /\ inv[i].nCreate = 0 /\ inv[i].created = 0

\* the dry-run flag is set to true: the protobuf notifiers read it in any
\* letter case, linkbot reads the lower-case word only
DryRunSet(r) ==
  \/ r.dryEnv = "true"
  \/ r.kind \in {"contract", "generated"} /\ r.dryEnv = "TRUE"

\* C7: dry run never writes.  A run whose dry-run flag is set to true never
\* comes to the creation call.
C7_DryRunNeverWrites ==
  \A i \in Slots :
    DryRunSet(inv[i]) =>
      inv[i].pc # "post" /\ inv[i].nCreate = 0 /\ inv[i].created = 0

\* a dry run stopped where a comment would have been posted
C7_Witness ==
  \E i \in Slots :
    /\ DryRunSet(inv[i]) /\ inv[i].exit = "dryrun"
    /\ inv[i].guard = "absent" /\ inv[i].kind = "linkbot"

\* C8: linkbot, the linked-issue query fails: no creation call, no fault.
C8_QueryFailureSkips ==
  \A i \in Slots :
    inv[i].queryFailed =>
      /\ Ended(i) /\ inv[i].outcome = "ok"
      /\ inv[i].nCreate = 0 /\ inv[i].created = 0

\* the query failed on a PR that would otherwise get the reminder
C8_Witness ==
  \E i \in Slots :
    /\ inv[i].queryFailed /\ inv[i].exit = "unknown"
    /\ inv[i].guard = "absent" /\ ~HasOpenIssue

\* a linkbot run that has the PR's number, for a PR whose author is a bot
OnBotPr(r) ==
  r.kind = "linkbot" /\ r.exit # "nopr" /\ world.author \in BotAuthors

BotSkipped(r) ==
  ~r.listed /\ r.nQuery = 0 /\ r.nCreate = 0 /\ r.created = 0

C10_OpenLinkedIssueNoAction ==
  \A i \in Slots :
    (inv[i].kind = "linkbot" /\ Ended(i) /\ inv[i].listed
       /\ world.author \in Authors \ BotAuthors /\ HasOpenIssue) =>
      inv[i].created = 0 /\ inv[i].outcome = "ok"

\* C11: generated-diff notifier, the diff payload is empty after trimming
\* (file missing, empty, or white space only): the run is over at once, it
\* has listed no comments and created none, and it ended without error.
C11_EmptyDiffSkips ==
  \A i \in Slots :
    (inv[i].kind = "generated" /\ inv[i].diffKind \in {"missing", "empty", "blank"}) =>
      /\ Ended(i) /\ inv[i].outcome = "ok"
      /\ ~inv[i].listed /\ inv[i].nCreate = 0 /\ inv[i].created = 0

\* a run with every required value set found only white space in the diff file
C11_Witness ==
  \E i \in Slots :
    /\ inv[i].kind = "generated" /\ inv[i].diffKind = "blank"
    /\ inv[i].exit = "nodiff"

\* C12: protobuf notifiers, a required value of the context (head revision,
\* base revision, file-list source) is absent: the run is over at once, it
\* has listed no comments and made no creation call, and it ended without
\* error.
C12_MissingFieldSkips ==
  \A i \in Slots :
    (inv[i].kind \in {"contract", "generated"} /\ inv[i].reqAbsent) =>
      /\ Ended(i) /\ inv[i].outcome = "ok"
      /\ ~inv[i].listed /\ inv[i].nCreate = 0 /\ inv[i].created = 0

\* a run with a PR number took the missing-values exit
C12_Witness ==
  \E i \in Slots :
    /\ inv[i].kind \in {"contract", "generated"} /\ inv[i].reqAbsent
    /\ inv[i].exit = "missing"

\* C13: no retries.  A run makes the creation call at most once, so it
\* creates at most one comment, also when the call or an earlier read failed.
C13_CreateAtMostOnce ==
  \A i \in Slots :
    /\ inv[i].nCreate <= 1
    /\ inv[i].created <= inv[i].nCreate
    /\ inv[i].nCreate = 1 => Ended(i)

\* a run whose creation call failed is over after that one call
C13_Witness ==
  \E i \in Slots :
    /\ inv[i].exit = "create_error" /\ inv[i].status = 500
    /\ inv[i].nCreate = 1 /\ inv[i].created = 0

\* the comments on the thread whose body is `body`
CountOnThread(body) ==
  Cardinality({k \in 1..Len(thread.new) : thread.new[k] = body})
    + (IF Filler = body THEN thread.old ELSE 0)

\* C14: fail-open guard of the generated-diff notifier.  As long as no two
\* runs have overlapped, the thread holds at most two comments of the
\* generated-diff notifier for one head revision: at most one duplicate.
C14_AtMostOneDuplicate ==
  ~world.overlap => CountOnThread(BodyOf("generated", HeadSha, <<>>)) <= 2

\* C15: fail-closed guard of the protobuf-contract notifier.  A run whose
\* listing failed, or whose guard counted 500 comments without the marker,
\* has 'already posted' for an answer and makes no creation call; and as long
\* as no two runs have overlapped, the thread holds at most one comment of
\* the protobuf-contract notifier for one head revision.
C15_FailClosedNoDuplicate ==
  /\ \A i \in Slots :
       (inv[i].kind = "contract" /\ (inv[i].listFailed \/ inv[i].capHit)) =>
         /\ inv[i].guard = "posted" /\ inv[i].exit = "already"
         /\ inv[i].nCreate = 0 /\ inv[i].created = 0
  /\ ~world.overlap => CountOnThread(BodyOf("contract", HeadSha, <<>>)) <= 1

\* a run of the protobuf-contract notifier stopped at the scan cap, and no run
\* has overlapped another
C15_Witness ==
  /\ ~world.overlap
  /\ \E i \in Slots :
       /\ inv[i].kind = "contract" /\ inv[i].capHit /\ ~inv[i].listFailed
       /\ inv[i].exit = "already"

\* C16: the scan of both protobuf guards, the listing succeeding.  If a
\* comment among the first 500 of the thread holds the marker (the 500th
\* included) the guard returns true, having counted the comments up to the
\* first such comment and no further; and it never counts more than 500.
C16_ScanContract ==
  \A i \in Slots :
    (inv[i].kind \in {"contract", "generated"} /\ inv[i].guard # "none"
       /\ ~inv[i].listFailed) =>
      /\ inv[i].examined <= MAX_COMMENTS_TO_SCAN
      /\ inv[i].firstAt > 0 =>
           inv[i].guard = "posted" /\ inv[i].examined = inv[i].firstAt

\* the generated-diff guard found the marker in the 500th comment
C16_Witness ==
  \E i \in Slots :
    /\ inv[i].kind = "generated" /\ ~inv[i].listFailed
    /\ inv[i].firstAt = MAX_COMMENTS_TO_SCAN /\ inv[i].guard = "posted"
    /\ ThreadLen(thread) > MAX_COMMENTS_TO_SCAN

\* the text of a truncated result before the note appended to it
BeforeNote(out) == SubSeq(out, 1, Len(out) - Len(TruncationNote))

\* the first n characters of `text` are whole lines: nothing, or up to a
\* newline, or up to the character before a newline
AtLineBoundary(text, n) ==
  \/ n = 0
  \/ text[n] = "\n"
  \/ n < Len(text) /\ text[n + 1] = "\n"

\* C17: truncateDiff(T, M) with length(T) > M and a newline among the first
\* M characters of T: truncated is true, and the text before the note is a
\* prefix of T no longer than M that ends at a line boundary of T.
C17_TruncateAtLineBoundary ==
  (calc.fn = "truncateDiff" /\ calc.returned
     /\ Len(calc.text) > calc.maxChars
     /\ \E k \in 1..calc.maxChars : calc.text[k] = "\n") =>
    /\ calc.truncated
    /\ LET kept == BeforeNote(calc.out)
       IN /\ Len(kept) <= calc.maxChars
          /\ kept = SubSeq(calc.text, 1, Len(kept))
          /\ AtLineBoundary(calc.text, Len(kept))

\* the places where the lines of `text` begin and end: before the text, at
\* every newline, after the text
LineEnds(text) ==
  {0, Len(text) + 1} \cup {k \in 1..Len(text) : text[k] = "\n"}

\* the lines of `text`, each with the place it begins at
LinesOf(text) ==
  {[at |-> p, line |-> SubSeq(text, p + 1, q - 1)] :
     <<p, q>> \in {pq \in LineEnds(text) \X LineEnds(text) :
                     /\ pq[1] < pq[2]
                     /\ \A e \in LineEnds(text) : ~(pq[1] < e /\ e < pq[2])}}

\* a line without the white space around it; <<>> for a blank line
Stripped(line) ==
  LET ink == {k \in 1..Len(line) : line[k] \notin Whitespace}
  IN IF ink = {} THEN <<>>
     ELSE SubSeq(line, CHOOSE k \in ink : \A j \in ink : k <= j,
                       CHOOSE k \in ink : \A j \in ink : j <= k)

\* where `entry` first occurs among the stripped lines of `text`
FirstAt(text, entry) ==
  LET at == {l.at : l \in {x \in LinesOf(text) : Stripped(x.line) = entry}}
  IN CHOOSE p \in at : \A q \in at : p <= q

\* C18: parseUniqueLines(text), for every text: no two entries of the result
\* are equal, no entry is empty or white space only, the entries are exactly
\* the distinct stripped non-blank lines of the text, and they stand in the
\* order in which they first occur in the text.
C18_UniqueLinesInOrder ==
  (calc.fn = "parseUniqueLines" /\ calc.returned) =>
    LET out == calc.lines
    IN /\ \A i, j \in 1..Len(out) : i # j => out[i] # out[j]
       /\ \A i \in 1..Len(out) : Stripped(out[i]) = out[i] /\ out[i] # <<>>
       /\ {out[i] : i \in 1..Len(out)}
            = {Stripped(l.line) : l \in LinesOf(calc.text)} \ {<<>>}
       /\ \A i, j \in 1..Len(out) :
            i < j => FirstAt(calc.text, out[i]) < FirstAt(calc.text, out[j])

\* a text of three lines, the third a repetition of the first, gives two
\* entries in the order of the text
C18_Witness ==
  /\ calc.fn = "parseUniqueLines" /\ calc.returned
  /\ calc.text = <<"b", "\n", "a", "\n", "b">>
  /\ calc.lines = << <<"b">>, <<"a">> >>

\* a run of a protobuf notifier has ended, and all went as C19 supposes: it
\* had a PR number, every required value and a non-empty diff, it was no dry
\* run, its listing succeeded on a thread of fewer than 500 comments none of
\* which held the marker, and no creation call of it failed
Supposed(r) ==
  /\ r.kind \in {"contract", "generated"} /\ r.pc = "done"
  /\ r.exit \notin {"nopr", "missing", "nodiff"}
  /\ ~DryRunSet(r)
  /\ r.listed /\ ~r.listFailed /\ ~r.capHit /\ r.firstAt = 0
  /\ r.status \in {0, 201}

\* the run created one comment, the newest of the thread, whose body begins
\* with the marker the guard looked for, and ended without error
PostedOne(r) ==
  /\ r.exit = "posted" /\ r.outcome = "ok"
  /\ r.nCreate = 1 /\ r.created = 1
  /\ Len(thread.new) >= 1
  /\ LET body == thread.new[Len(thread.new)]
     IN /\ body = BodyOf(r.kind, r.head, <<>>)
        /\ SubSeq(body, 1, Len(Marker(r.head))) = Marker(r.head)

\* a run of a protobuf notifier is in the slot, on its way
Running(i) == inv[i].pc \in {"scan", "post"}

\* C19: progress in both protobuf notifiers.  A run that is on its way comes
\* to its end (the oldest run in its slot; a younger run in its slot, or it
\* moves up a slot when an older run has ended and gone), and a run that has
\* ended with all going as supposed has created exactly one comment beginning
\* with the marker and has ended without error.
C19_Progress ==
  /\ Running(1) ~> Ended(1)
  /\ \A i \in Slots : Running(i) ~> (\E j \in Slots : j <= i /\ Ended(j))
  /\ [](\A i \in Slots : Supposed(inv[i]) => PostedOne(inv[i]))

\* a run of the generated-diff notifier on a thread of 499 comments has posted
C19_Witness ==
  \E i \in Slots :
    /\ Supposed(inv[i]) /\ PostedOne(inv[i])
    /\ inv[i].kind = "generated" /\ inv[i].examined = MAX_COMMENTS_TO_SCAN - 1

\* C20: linkbot's deduplication is per PR.  A run whose listing call returned
\* a comment holding the LinkBot marker makes no creation call, and a run
\* makes a creation call only after a listing that succeeded and returned no
\* such comment.  The marker and the listing hold no head revision.
C20_LinkbotDedupPerPr ==
  \A i \in Slots :
    inv[i].kind = "linkbot" =>
      /\ inv[i].firstAt > 0 =>
           inv[i].pc # "post" /\ inv[i].nCreate = 0 /\ inv[i].created = 0
      /\ (inv[i].pc = "post" \/ inv[i].nCreate >= 1) =>
           inv[i].listed /\ ~inv[i].listFailed /\ inv[i].firstAt = 0

\* a run on a PR with no open linked issue found the earlier reminder, the
\* only one on the thread, and left it at that
C20_Witness ==
  \E i \in Slots :
    /\ inv[i].kind = "linkbot" /\ inv[i].exit = "already" /\ inv[i].firstAt > 0
    /\ ~HasOpenIssue
    /\ CountOnThread(BodyOf("linkbot", "", world.author.login)) = 1

====
